---- MODULE Spec2Model ----
\* A model of leptos-chartistry's data aggregation (Series::use_data, UseData)
\* and of the Chart component's edge ordering.
\*
\* f64 values are modelled as records: a finite value carries an integer, the
\* three non-finite ones are NaN, PInf and NInf.  Option<T> is a sequence of
\* length 0 (None) or 1 (Some).  Indexes are 0-based as in the source; the
\* element at index i of a Vec v is v[i + 1].
EXTENDS Integers, Sequences, FiniteSets, TLC

\* ------------------------------------------------------------------ bounds
MaxLen == 3
MaxPos == 4
MaxEdge == 2

\* ------------------------------------------------------------------ f64
F(n) == [k |-> "fin", v |-> n]
NaN == [k |-> "nan", v |-> 0]
PInf == [k |-> "inf", v |-> 1]
NInf == [k |-> "inf", v |-> -1]

None == << >>
Some(x) == << x >>
IsSome(o) == Len(o) = 1
Unwrap(o) == o[1]

is_finite(a) == a.k = "fin"
IsNaN(a) == a.k = "nan"

\* a < b on f64: false as soon as one side is NaN
Lt(a, b) ==
    IF IsNaN(a) \/ IsNaN(b) THEN FALSE
    ELSE IF a.k = "fin" /\ b.k = "fin" THEN a.v < b.v
    ELSE IF a.k = "inf" /\ b.k = "inf" THEN a.v < b.v
    ELSE IF a.k = "inf" THEN a.v < 0
    ELSE b.v > 0

Gt(a, b) == Lt(b, a)
Le(a, b) == ~IsNaN(a) /\ ~IsNaN(b) /\ ~Lt(b, a)

\* a - b on f64
Sub(a, b) ==
    IF IsNaN(a) \/ IsNaN(b) THEN NaN
    ELSE IF a.k = "fin" /\ b.k = "fin" THEN F(a.v - b.v)
    ELSE IF a.k = "inf" /\ b.k = "inf" THEN (IF a.v = b.v THEN NaN ELSE a)
    ELSE IF a.k = "inf" THEN a
    ELSE [k |-> "inf", v |-> -b.v]

\* |a| on f64
Abs(a) ==
    IF a.k = "fin" THEN F(IF a.v < 0 THEN -a.v ELSE a.v)
    ELSE IF a.k = "inf" THEN PInf
    ELSE NaN

\* f64::total_cmp as a rank: -inf < finite < +inf < NaN
TotalLt(a, b) ==
    IF IsNaN(a) THEN FALSE
    ELSE IF IsNaN(b) THEN TRUE
    ELSE Lt(a, b)

\* impl Position for f64
position(x) == x

\* ------------------------------------------------------------------ state
LineIds == << 1, 2 >>
Lines == { LineIds[i] : i \in 1 .. Len(LineIds) }

VARIABLES
    data,               \* the source records: Signal<Vec<T>>
    min_x, max_x,       \* Series overrides: Signal<Option<X>>
    min_y, max_y,       \* Series overrides: Signal<Option<Y>>
    data_x,             \* Memo<Vec<X>>
    data_y_lines,       \* line id -> Memo<Vec<Y>> (values)
    data_y_positions,   \* line id -> Memo<Vec<Y>> (chart positions)
    positions_x,        \* Memo<Vec<f64>>
    positions_y_lines,  \* line id -> Memo<Vec<f64>>
    range_x,            \* Memo<Option<(X, X)>>
    range_y_lines,      \* line id -> Memo<Option<(Y, Y)>>
    range_y,            \* Memo<Option<(Y, Y)>>
    position_range,     \* Memo<Bounds>, in position space
    pos_x,              \* the query handed to nearest_index: Signal<f64>
    top, right, bottom, left,   \* Chart's edge props, as declared
    watch_bounds,       \* use_watched_node: the observed container box
    inner,              \* Chart prop: the decorations inside the plot area
    composed,           \* the four lists RenderChart hands to Layout::compose
    layout,             \* RenderChart: the Layout returned by Layout::compose
    projection,         \* RenderChart: Memo<Projection>
    font_height_prop,   \* Chart prop font_height: Option<MaybeSignal<f64>>
    font_width_prop,    \* Chart prop font_width: Option<MaybeSignal<f64>>
    padding_prop,       \* Chart prop padding: Option<MaybeSignal<Padding>>
    font_height,        \* Chart: Memo<f64>
    font_width,         \* Chart: Memo<f64>
    padding,            \* Chart: Memo<Padding>
    call_positions,     \* a call of data_range: its positions argument
    call_values,        \* a call of data_range: its data argument
    call_result,        \* None before the call returns, then Some of the result
    aspect,             \* playground: RwSignal<(AspectOption, AspectCalc)>
    width,              \* playground: RwSignal<f64>
    height,             \* playground: RwSignal<f64>
    ratio,              \* playground: RwSignal<f64>
    aspect_ratio,       \* None before derive_aspect_ratio's signal is read, then Some
    options,            \* playground: an Options list
    options_call,       \* the operation applied to it and its index
    options_result      \* None before the operation returns, then Some of the outcome

dataVars == << data, min_x, max_x, min_y, max_y, data_x, data_y_lines,
               data_y_positions, positions_x, positions_y_lines, range_x,
               range_y_lines, range_y, position_range >>
chartVars == << top, right, bottom, left, inner, watch_bounds, composed, layout, projection >>
edgeProps == << top, right, bottom, left, inner >>
fontVars == << font_height_prop, font_width_prop, padding_prop,
               font_height, font_width, padding >>
callVars == << call_positions, call_values, call_result >>
aspectVars == << aspect, width, height, ratio, aspect_ratio >>
optionsVars == << options, options_call, options_result >>
playVars == << aspectVars, optionsVars >>
vars == << dataVars, pos_x, chartVars, fontVars, callVars, playVars >>

\* ------------------------------------------------------------------ helpers
Indexes(s) == 0 .. (Len(s) - 1)
At(s, i) == s[i + 1]
Map(s, Op(_)) == [i \in 1 .. Len(s) |-> Op(s[i])]

RECURSIVE Flatten(_)
Flatten(opts) == IF opts = << >> THEN << >> ELSE Head(opts) \o Flatten(Tail(opts))

\* ------------------------------------------------------------------ Series
\* A record T carries its X and one Y per line.
get_x(datum) == datum.x
get_y_value(id, datum) == datum.ys[id]
get_y_position(id, datum) == datum.ys[id]

data_x_memo(d) == Map(d, get_x)

\* y_maker leaving out the records whose Y is not finite
y_maker_skipping(d, value) ==
    [id \in Lines |->
        SelectSeq([i \in 1 .. Len(d) |->
                      IF value THEN get_y_value(id, d[i]) ELSE get_y_position(id, d[i])],
                  is_finite)]

y_maker(d, value) ==
    [id \in Lines |->
        [i \in 1 .. Len(d) |->
            IF value THEN get_y_value(id, d[i]) ELSE get_y_position(id, d[i])]]

positions_memo(values) == Map(values, position)

RECURSIVE data_range_fold(_, _, _)
data_range_fold(positions, i, acc) ==
    IF i >= Len(positions) THEN acc
    ELSE LET pos == At(positions, i)
             next == IF is_finite(pos)
                     THEN IF IsSome(acc)
                          THEN LET min == Unwrap(acc)[1]
                                   max == Unwrap(acc)[2]
                               IN Some(<< IF Lt(pos, At(positions, min)) THEN i ELSE min,
                                          IF Gt(pos, At(positions, max)) THEN i ELSE max >>)
                          ELSE Some(<< i, i >>)
                     ELSE acc
         IN data_range_fold(positions, i + 1, next)

\* data_range_fold without the is_finite test
RECURSIVE data_range_fold_unfiltered(_, _, _)
data_range_fold_unfiltered(positions, i, acc) ==
    IF i >= Len(positions) THEN acc
    ELSE LET pos == At(positions, i)
             next == IF IsSome(acc)
                     THEN LET min == Unwrap(acc)[1]
                              max == Unwrap(acc)[2]
                          IN Some(<< IF Lt(pos, At(positions, min)) THEN i ELSE min,
                                     IF Gt(pos, At(positions, max)) THEN i ELSE max >>)
                     ELSE Some(<< i, i >>)
         IN data_range_fold_unfiltered(positions, i + 1, next)

data_range_unfiltered(positions, values) ==
    LET indexes == data_range_fold_unfiltered(positions, 0, None)
    IN IF IsSome(indexes)
       THEN Some(<< At(values, Unwrap(indexes)[1]), At(values, Unwrap(indexes)[2]) >>)
       ELSE None

\* data_range with non-strict comparisons
RECURSIVE data_range_fold_last(_, _, _)
data_range_fold_last(positions, i, acc) ==
    IF i >= Len(positions) THEN acc
    ELSE LET pos == At(positions, i)
             next == IF is_finite(pos)
                     THEN IF IsSome(acc)
                          THEN LET min == Unwrap(acc)[1]
                                   max == Unwrap(acc)[2]
                               IN Some(<< IF Le(pos, At(positions, min)) THEN i ELSE min,
                                          IF Le(At(positions, max), pos) THEN i ELSE max >>)
                          ELSE Some(<< i, i >>)
                     ELSE acc
         IN data_range_fold_last(positions, i + 1, next)

data_range_last(positions, values) ==
    LET indexes == data_range_fold_last(positions, 0, None)
    IN IF IsSome(indexes)
       THEN Some(<< At(values, Unwrap(indexes)[1]), At(values, Unwrap(indexes)[2]) >>)
       ELSE None

data_range(positions, values) ==
    LET indexes == data_range_fold(positions, 0, None)
    IN IF IsSome(indexes)
       THEN Some(<< At(values, Unwrap(indexes)[1]), At(values, Unwrap(indexes)[2]) >>)
       ELSE None

\* the "specified" match putting a pair of overrides in ascending order
specified_range_sorted(mn, mx) ==
    IF IsSome(mn) /\ IsSome(mx)
    THEN IF Lt(position(Unwrap(mx)), position(Unwrap(mn)))
         THEN Some(<< Unwrap(mx), Unwrap(mn) >>)
         ELSE Some(<< Unwrap(mn), Unwrap(mx) >>)
    ELSE IF IsSome(mn) THEN Some(<< Unwrap(mn), Unwrap(mn) >>)
    ELSE IF IsSome(mx) THEN Some(<< Unwrap(mx), Unwrap(mx) >>)
    ELSE None

\* the "specified" match asking for both overrides
specified_range_both_only(mn, mx) ==
    IF IsSome(mn) /\ IsSome(mx) THEN Some(<< Unwrap(mn), Unwrap(mx) >>)
    ELSE None

\* the "specified" match of range_x
specified_range(mn, mx) ==
    IF IsSome(mn) /\ IsSome(mx) THEN Some(<< Unwrap(mn), Unwrap(mx) >>)
    ELSE IF IsSome(mn) THEN Some(<< Unwrap(mn), Unwrap(mn) >>)
    ELSE IF IsSome(mx) THEN Some(<< Unwrap(mx), Unwrap(mx) >>)
    ELSE None

\* range_x with the override replacing the data extent
range_x_memo_replacing(positions, values, mn, mx) ==
    LET range == data_range(positions, values)
        specified == specified_range(mn, mx)
    IN IF IsSome(specified) THEN specified ELSE range

range_x_memo(positions, values, mn, mx) ==
    LET range == data_range(positions, values)
        specified == specified_range(mn, mx)
    IN IF ~IsSome(range) /\ ~IsSome(specified) THEN None
       ELSE IF ~IsSome(specified) THEN range
       ELSE IF ~IsSome(range) THEN specified
       ELSE LET min_r == Unwrap(range)[1]
                max_r == Unwrap(range)[2]
                min_s == Unwrap(specified)[1]
                max_s == Unwrap(specified)[2]
            IN Some(<< IF Lt(position(min_r), position(min_s)) THEN min_r ELSE min_s,
                       IF Gt(position(max_r), position(max_s)) THEN max_r ELSE max_s >>)

range_y_lines_memo(positions, values) ==
    [id \in Lines |-> data_range(positions[id], values[id])]

\* Iterator::min_by keeps the first of several equal minima
RECURSIVE min_by(_, _)
min_by(cands, best) ==
    IF cands = << >> THEN best
    ELSE min_by(Tail(cands),
                IF ~IsSome(best) THEN Some(Head(cands))
                ELSE IF TotalLt(position(Head(cands)), position(Unwrap(best)))
                     THEN Some(Head(cands)) ELSE best)

\* Iterator::max_by keeps the last of several equal maxima
RECURSIVE max_by(_, _)
max_by(cands, best) ==
    IF cands = << >> THEN best
    ELSE max_by(Tail(cands),
                IF ~IsSome(best) THEN Some(Head(cands))
                ELSE IF TotalLt(position(Head(cands)), position(Unwrap(best)))
                     THEN best ELSE Some(Head(cands)))

\* range_y reconciling the first line only
range_y_memo_first_line(ranges, mn, mx) ==
    LET first == ranges[LineIds[1]]
        min == min_by(Flatten(<< IF IsSome(first) THEN Some(Unwrap(first)[1]) ELSE None,
                                 mn >>), None)
        max == max_by(Flatten(<< IF IsSome(first) THEN Some(Unwrap(first)[2]) ELSE None,
                                 mx >>), None)
    IN IF IsSome(min) /\ IsSome(max)
       THEN Some(<< Unwrap(min), Unwrap(max) >>)
       ELSE None

\* range_y with a specified end taking the place of the data's end
range_y_memo_override_wins(ranges, mn, mx) ==
    LET mins == [i \in 1 .. Len(LineIds) |->
                    IF IsSome(ranges[LineIds[i]])
                    THEN Some(Unwrap(ranges[LineIds[i]])[1]) ELSE None]
        maxs == [i \in 1 .. Len(LineIds) |->
                    IF IsSome(ranges[LineIds[i]])
                    THEN Some(Unwrap(ranges[LineIds[i]])[2]) ELSE None]
        min == IF IsSome(mn) THEN mn ELSE min_by(Flatten(mins), None)
        max == IF IsSome(mx) THEN mx ELSE max_by(Flatten(maxs), None)
    IN IF IsSome(min) /\ IsSome(max)
       THEN Some(<< Unwrap(min), Unwrap(max) >>)
       ELSE None

\* range_y with a lone override standing for both ends, as in range_x
range_y_memo_lone_both(ranges, mn, mx) ==
    LET mins == [i \in 1 .. Len(LineIds) |->
                    IF IsSome(ranges[LineIds[i]])
                    THEN Some(Unwrap(ranges[LineIds[i]])[1]) ELSE None]
        maxs == [i \in 1 .. Len(LineIds) |->
                    IF IsSome(ranges[LineIds[i]])
                    THEN Some(Unwrap(ranges[LineIds[i]])[2]) ELSE None]
        min == min_by(Flatten(mins \o << IF IsSome(mn) THEN mn ELSE mx >>), None)
        max == max_by(Flatten(maxs \o << IF IsSome(mx) THEN mx ELSE mn >>), None)
    IN IF IsSome(min) /\ IsSome(max)
       THEN Some(<< Unwrap(min), Unwrap(max) >>)
       ELSE None

range_y_memo(ranges, mn, mx) ==
    LET mins == [i \in 1 .. Len(LineIds) |->
                    IF IsSome(ranges[LineIds[i]])
                    THEN Some(Unwrap(ranges[LineIds[i]])[1]) ELSE None]
        maxs == [i \in 1 .. Len(LineIds) |->
                    IF IsSome(ranges[LineIds[i]])
                    THEN Some(Unwrap(ranges[LineIds[i]])[2]) ELSE None]
        min == min_by(Flatten(mins \o << mn >>), None)
        max == max_by(Flatten(maxs \o << mx >>), None)
    IN IF IsSome(min) /\ IsSome(max)
       THEN Some(<< Unwrap(min), Unwrap(max) >>)
       ELSE None

\* Bounds::from_points: the rectangle spanned by two points, in either order
from_points(x0, y0, x1, y1) ==
    [left |-> IF Lt(x1, x0) THEN x1 ELSE x0,
     top |-> IF Lt(y1, y0) THEN y1 ELSE y0,
     right |-> IF Lt(x1, x0) THEN x0 ELSE x1,
     bottom |-> IF Lt(y1, y0) THEN y0 ELSE y1]

\* Option<(f64, f64)>::unwrap_or_default
unwrap_or_default(r) ==
    IF IsSome(r) THEN << position(Unwrap(r)[1]), position(Unwrap(r)[2]) >>
    ELSE << F(0), F(0) >>

\* position_range handing from_points its arguments as (min_x, max_x, min_y, max_y)
position_range_memo_misordered(rx, ry) ==
    LET x == unwrap_or_default(rx)
        y == unwrap_or_default(ry)
    IN from_points(x[1], x[2], y[1], y[2])

position_range_memo(rx, ry) ==
    LET x == unwrap_or_default(rx)
        y == unwrap_or_default(ry)
    IN from_points(x[1], y[1], x[2], y[2])

\* ------------------------------------------------------------------ UseData
\* slice::partition_point: the number of leading elements below the query when
\* the slice is partitioned by the predicate, unspecified otherwise
partition_point(positions, q) ==
    IF \A i, j \in Indexes(positions) :
           (i < j /\ Lt(At(positions, j), q)) => Lt(At(positions, i), q)
    THEN { Cardinality({ i \in Indexes(positions) : Lt(At(positions, i), q) }) }
    ELSE 0 .. Len(positions)

\* closest_index with the two distances compared the wrong way round
closest_index_swapped(positions, q, index) ==
    IF index = 0 THEN Some(0)
    ELSE IF index = Len(positions) THEN Some(index - 1)
    ELSE LET ahead == Sub(At(positions, index), q)
             before == Sub(q, At(positions, index - 1))
         IN IF Lt(before, ahead) THEN Some(index) ELSE Some(index - 1)

\* closest_index answering the index the search found, whatever lies there
closest_index_found(positions, q, index) == Some(index)

\* closest_index without the "no value ahead" clamp
closest_index_unclamped(positions, q, index) ==
    IF index = 0 THEN Some(0)
    ELSE IF index = Len(positions) THEN Some(index)
    ELSE LET ahead == Sub(At(positions, index), q)
             before == Sub(q, At(positions, index - 1))
         IN IF Lt(ahead, before) THEN Some(index) ELSE Some(index - 1)

\* closest_index with ahead <= before
closest_index_le(positions, q, index) ==
    IF index = 0 THEN Some(0)
    ELSE IF index = Len(positions) THEN Some(index - 1)
    ELSE LET ahead == Sub(At(positions, index), q)
             before == Sub(q, At(positions, index - 1))
         IN IF Le(ahead, before) THEN Some(index) ELSE Some(index - 1)

\* closest_index with the predecessor kept only when strictly closer
closest_index_later(positions, q, index) ==
    IF index = 0 THEN Some(0)
    ELSE IF index = Len(positions) THEN Some(index - 1)
    ELSE LET ahead == Sub(At(positions, index), q)
             before == Sub(q, At(positions, index - 1))
         IN IF Lt(before, ahead) THEN Some(index - 1) ELSE Some(index)

\* nearest_index after the emptiness test, for one outcome of partition_point
closest_index(positions, q, index) ==
    IF index = 0 THEN Some(0)
    ELSE IF index = Len(positions) THEN Some(index - 1)
    ELSE LET ahead == Sub(At(positions, index), q)
             before == Sub(q, At(positions, index - 1))
         IN IF Lt(ahead, before) THEN Some(index) ELSE Some(index - 1)

nearest_index(positions, q) ==
    IF Len(positions) = 0 THEN { None }
    ELSE { closest_index(positions, q, index) : index \in partition_point(positions, q) }

\* UseData::nearest_data_x: the X value at the nearest index
nearest_data_x(values, positions, q) ==
    { IF IsSome(index) THEN Some(At(values, Unwrap(index))) ELSE None :
        index \in nearest_index(positions, q) }

\* nearest_position_x answering 0.0 when there is no data
nearest_position_x_zero(positions, q) ==
    { IF IsSome(index) THEN At(positions, Unwrap(index)) ELSE F(0) :
        index \in nearest_index(positions, q) }

\* UseData::nearest_position_x: the X position at the nearest index, NaN if none
nearest_position_x(positions, q) ==
    { IF IsSome(index) THEN At(positions, Unwrap(index)) ELSE NaN :
        index \in nearest_index(positions, q) }

\* UseData::nearest_data_y: for each line, the Y value at the nearest index
nearest_data_y(y_lines, positions, q) ==
    [id \in Lines |->
        { IF IsSome(index_x) THEN Some(At(y_lines[id], Unwrap(index_x))) ELSE None :
            index_x \in nearest_index(positions, q) }]

\* ------------------------------------------------------------------ Chart
Reverse(s) == [i \in 1 .. Len(s) |-> s[Len(s) + 1 - i]]

\* Chart with left.reverse() left out
chart_edges_left_forward(t, r, b, l) ==
    [top |-> Reverse(t), right |-> r, bottom |-> b, left |-> l]

\* Chart: the lists handed to RenderChart and from there to Layout::compose
chart_edges(t, r, b, l) ==
    [top |-> Reverse(t), right |-> r, bottom |-> b, left |-> Reverse(l)]

have_dimensions(bounds) == IsSome(bounds)

\* Layout::compose works inside out: the number of decorations of the list
\* that lie between decoration d and the plot
compose_depth(list, d) ==
    Cardinality({ i \in 1 .. Len(list) : \E j \in 1 .. Len(list) : i < j /\ list[j] = d })

\* the thickness each decoration asks for
Thickness == [d \in { "A", "B", "C" } |-> IF d = "A" THEN 1 ELSE IF d = "B" THEN 2 ELSE 3]

RECURSIVE SumThickness(_)
SumThickness(list) ==
    IF list = << >> THEN 0 ELSE Thickness[Head(list)] + SumThickness(Tail(list))

Max2(a, b) == IF a < b THEN b ELSE a

\* Layout::compose: the outer rectangle is the observed box, the inner one is
\* what the edges leave of it, never less than nothing
compose(edges, box) ==
    LET w == box[1]
        h == box[2]
        l == SumThickness(edges.left)
        t == SumThickness(edges.top)
    IN [outer |-> [left |-> 0, top |-> 0, right |-> w, bottom |-> h],
        inner |-> [left |-> l, top |-> t,
                   right |-> Max2(l, w - SumThickness(edges.right)),
                   bottom |-> Max2(t, h - SumThickness(edges.bottom))]]

\* Projection::new
Projection_new(bounds, range) == [bounds |-> bounds, range |-> range]

\* RenderChart's projection memo reading the outer rectangle
projection_memo_outer(lay, range) == Some(Projection_new(lay.outer, range))

\* RenderChart's projection memo without the position range
projection_memo_unranged(lay, range) ==
    Some(Projection_new(lay.inner, from_points(F(0), F(0), F(0), F(0))))

\* RenderChart: the projection memo
projection_memo(lay, range) == Some(Projection_new(lay.inner, range))

\* Projection::bounds
bounds(proj) == proj.bounds

\* Projection::data_to_svg: affine on each axis, the vertical axis mirrored; a
\* domain of no extent goes to the centre of the pixel span
data_to_svg(proj, x, y) ==
    LET b == proj.bounds
        r == proj.range
        zx == IF r.right = r.left THEN (b.left + b.right) \div 2
              ELSE b.left + ((x.v - r.left.v) * (b.right - b.left)) \div (r.right.v - r.left.v)
        zy == IF r.bottom = r.top THEN (b.top + b.bottom) \div 2
              ELSE b.bottom - ((y.v - r.top.v) * (b.bottom - b.top)) \div (r.bottom.v - r.top.v)
    IN << zx, zy >>

\* Projection::position_to_svg: data_to_svg on positions; a position that is not
\* finite has no finite coordinate
position_to_svg(proj, x, y) ==
    << IF is_finite(x) THEN F(data_to_svg(proj, x, F(0))[1]) ELSE NaN,
       IF is_finite(y) THEN F(data_to_svg(proj, F(0), y)[2]) ELSE NaN >>

Min2(a, b) == IF b < a THEN b ELSE a

\* Iterator::zip: as long as the shorter of the two
zip(s, t) == [i \in 1 .. Min2(Len(s), Len(t)) |-> << s[i], t[i] >>]

\* RenderData: the coordinates of a line without the records that have a
\* position that is not finite
svg_coords_finite_only(proj, xs, ys) ==
    LET pairs == SelectSeq(zip(xs, ys),
                           LAMBDA xy : is_finite(xy[1]) /\ is_finite(xy[2]))
    IN [i \in 1 .. Len(pairs) |-> position_to_svg(proj, pairs[i][1], pairs[i][2])]

\* RenderData: the derived signal of the SVG coordinates of a line
svg_coords(proj, xs, ys) ==
    LET pairs == zip(xs, ys)
    IN [i \in 1 .. Len(pairs) |-> position_to_svg(proj, pairs[i][1], pairs[i][2])]

\* AxisMarker constructors
top_edge == [edge |-> "Top", placement |-> "Edge"]
right_edge == [edge |-> "Right", placement |-> "Edge"]
bottom_edge == [edge |-> "Bottom", placement |-> "Edge"]
left_edge == [edge |-> "Left", placement |-> "Edge"]
horizontal_zero == [edge |-> "Bottom", placement |-> "Zero"]
vertical_zero == [edge |-> "Left", placement |-> "Zero"]

\* AxisMarker: the line's position with the placement ignored
AxisMarker_pos_on_edge(marker, proj) ==
    LET b == bounds(proj)
    IN CASE marker.edge = "Top" -> << b.left, b.top, b.right, b.top >>
         [] marker.edge = "Bottom" -> << b.left, b.bottom, b.right, b.bottom >>
         [] marker.edge = "Left" -> << b.left, b.bottom, b.left, b.top >>
         [] marker.edge = "Right" -> << b.right, b.bottom, b.right, b.top >>

\* AxisMarker: the line of a Left or Right marker drawn from top to bottom
AxisMarker_pos_top_down(marker, proj) ==
    LET b == bounds(proj)
        zero == data_to_svg(proj, F(0), F(0))
    IN IF marker.placement = "Edge"
       THEN CASE marker.edge = "Top" -> << b.left, b.top, b.right, b.top >>
              [] marker.edge = "Bottom" -> << b.left, b.bottom, b.right, b.bottom >>
              [] marker.edge = "Left" -> << b.left, b.top, b.left, b.bottom >>
              [] marker.edge = "Right" -> << b.right, b.top, b.right, b.bottom >>
       ELSE CASE marker.edge = "Top" -> << b.left, zero[2], b.right, zero[2] >>
              [] marker.edge = "Bottom" -> << b.left, zero[2], b.right, zero[2] >>
              [] marker.edge = "Left" -> << zero[1], b.top, zero[1], b.bottom >>
              [] marker.edge = "Right" -> << zero[1], b.top, zero[1], b.bottom >>

\* AxisMarker: the derived signal pos, (x1, y1, x2, y2) of the line
AxisMarker_pos(marker, proj) ==
    LET b == bounds(proj)
        zero == data_to_svg(proj, F(0), F(0))
    IN IF marker.placement = "Edge"
       THEN CASE marker.edge = "Top" -> << b.left, b.top, b.right, b.top >>
              [] marker.edge = "Bottom" -> << b.left, b.bottom, b.right, b.bottom >>
              [] marker.edge = "Left" -> << b.left, b.bottom, b.left, b.top >>
              [] marker.edge = "Right" -> << b.right, b.bottom, b.right, b.top >>
       ELSE CASE marker.edge = "Top" -> << b.left, zero[2], b.right, zero[2] >>
              [] marker.edge = "Bottom" -> << b.left, zero[2], b.right, zero[2] >>
              [] marker.edge = "Left" -> << zero[1], b.bottom, zero[1], b.top >>
              [] marker.edge = "Right" -> << zero[1], b.bottom, zero[1], b.top >>

\* ------------------------------------------------------------------ font
FONT_HEIGHT == 16
FONT_WIDTH == 10

\* Padding::from(f64): the same padding on the four sides
Padding_from(v) == [top |-> v, right |-> v, bottom |-> v, left |-> v]
Padding_height(p) == p.top + p.bottom
Padding_width(p) == p.left + p.right

\* Chart: the font and padding memos
font_height_memo(prop) == IF IsSome(prop) THEN Unwrap(prop) ELSE FONT_HEIGHT
font_width_memo(prop) == IF IsSome(prop) THEN Unwrap(prop) ELSE FONT_WIDTH

\* the padding memo falling back on the default font width
padding_memo_default_width(prop, fw) ==
    IF IsSome(prop) THEN Unwrap(prop) ELSE Padding_from(FONT_WIDTH)

padding_memo(prop, fw) ==
    IF IsSome(prop) THEN Unwrap(prop) ELSE Padding_from(fw)

\* the attributes the chart hands to its decorations
Attr == [font |-> [height |-> font_height, width |-> font_width], padding |-> padding]

\* ------------------------------------------------------------------ tick labels
\* TickLabels::new: no font, no padding of its own
TickLabels_new == [font |-> None, padding |-> None]

\* TickLabels::apply_attr: what the decoration does not set comes from the chart
apply_attr(labels, attr) ==
    [font |-> IF IsSome(labels.font) THEN Unwrap(labels.font) ELSE attr.font,
     padding |-> IF IsSome(labels.padding) THEN Unwrap(labels.padding) ELSE attr.padding]

\* TickGen::generate: no ticks for no range, else the ends of the range
generate(range) ==
    IF ~IsSome(range) THEN << >>
    ELSE IF Unwrap(range)[1] = Unwrap(range)[2] THEN << Unwrap(range)[1] >>
    ELSE << Unwrap(range)[1], Unwrap(range)[2] >>

\* the length of the short label of a tick: its decimal digits and sign
short_format_len(tick) ==
    (IF tick.v < 0 THEN 1 ELSE 0) + (IF Abs(tick).v < 10 THEN 1 ELSE 2)

\* Iterator::max of the label lengths, None for no ticks
RECURSIVE max_len(_, _)
max_len(ticks, best) ==
    IF ticks = << >> THEN best
    ELSE max_len(Tail(ticks),
                 IF IsSome(best) /\ short_format_len(Head(ticks)) < Unwrap(best)
                 THEN best ELSE Some(short_format_len(Head(ticks))))

\* HorizontalOption::height for TickLabelsAttr
TickLabelsAttr_height(labels) == labels.font.height + Padding_height(labels.padding)

\* UseLayout::width with room for one character when there are no ticks
UseTickLabels_width_one_char(labels, ticks) ==
    LET chars == IF IsSome(max_len(ticks, None)) THEN Unwrap(max_len(ticks, None)) ELSE 1
    IN labels.font.width * chars + Padding_width(labels.padding)

\* TickLabel: the width of the box of one rendered label
TickLabel_width(labels, tick) ==
    labels.font.width * short_format_len(tick) + Padding_width(labels.padding)

\* UseLayout::width without the padding
UseTickLabels_width_unpadded(labels, ticks) ==
    LET chars == IF IsSome(max_len(ticks, None)) THEN Unwrap(max_len(ticks, None)) ELSE 0
    IN labels.font.width * chars

\* UseLayout::width sized by the first tick alone
UseTickLabels_width_first(labels, ticks) ==
    LET chars == IF ticks = << >> THEN 0 ELSE short_format_len(Head(ticks))
    IN labels.font.width * chars + Padding_width(labels.padding)

\* UseLayout::width for UseTickLabels
UseTickLabels_width(labels, ticks) ==
    LET chars == IF IsSome(max_len(ticks, None)) THEN Unwrap(max_len(ticks, None)) ELSE 0
    IN labels.font.width * chars + Padding_width(labels.padding)

\* ------------------------------------------------------------------ playground Options
\* the outcome of a call: the list it returns, or a panic
Ok(list) == [k |-> "ok", v |-> list]
Panic == [k |-> "panic", v |-> << >>]

\* Vec::swap as move_up and move_down call it: panics on an index out of bounds
swap(list, a, b) ==
    IF a >= Len(list) \/ b >= Len(list)
    THEN Panic
    ELSE Ok([j \in 1 .. Len(list) |->
                IF j = a + 1 THEN At(list, b)
                ELSE IF j = b + 1 THEN At(list, a)
                ELSE list[j]])

\* Vec::remove as remove calls it: panics on an index out of bounds
Vec_remove(list, index) ==
    IF index >= Len(list)
    THEN Panic
    ELSE Ok([j \in 1 .. (Len(list) - 1) |-> IF j <= index THEN list[j] ELSE list[j + 1]])

add(list, opt) == Ok(Append(list, opt))

move_up(list, index) ==
    IF index > 0 THEN swap(list, index, index - 1) ELSE Ok(list)

\* len() - 1 on the empty list: with overflow checks the subtraction panics,
\* without them it wraps to usize::MAX, above every index drawn here
move_down(list, index, overflow_checks) ==
    IF Len(list) = 0
    THEN IF overflow_checks THEN Panic ELSE swap(list, index, index + 1)
    ELSE IF index < Len(list) - 1 THEN swap(list, index, index + 1) ELSE Ok(list)

remove(list, index) ==
    IF index < Len(list) THEN Vec_remove(list, index) ELSE Ok(list)

\* ------------------------------------------------------------------ playground
ALL_ASPECT_OPTIONS == << "Outer", "Inner", "Environment" >>
ALL_ASPECT_CALCS == << "Ratio", "Width", "Height" >>

\* derive_aspect_ratio: the AspectRatio constructor called and its arguments
derive_aspect_ratio(a, w, h, r) ==
    LET option == a[1]
        calc == a[2]
    IN CASE option = "Outer" /\ calc = "Width" -> [fn |-> "outer_height", args |-> << h, r >>]
         [] option = "Outer" /\ calc = "Height" -> [fn |-> "outer_width", args |-> << w, r >>]
         [] option = "Outer" /\ calc = "Ratio" -> [fn |-> "outer", args |-> << w, h >>]
         [] option = "Inner" /\ calc = "Width" -> [fn |-> "inner_height", args |-> << w, r >>]
         [] option = "Inner" /\ calc = "Height" -> [fn |-> "inner_width", args |-> << h, r >>]
         [] option = "Inner" /\ calc = "Ratio" -> [fn |-> "inner", args |-> << w, h >>]
         [] option = "Environment" /\ calc = "Width" ->
                [fn |-> "environment_height", args |-> << r >>]
         [] option = "Environment" /\ calc = "Height" ->
                [fn |-> "environment_width", args |-> << r >>]
         [] option = "Environment" /\ calc = "Ratio" -> [fn |-> "environment", args |-> << >>]

\* ------------------------------------------------------------------ inputs
XVals == { F(n) : n \in 0 .. MaxPos } \cup { NaN, PInf, NInf }
YVals == { F(1), F(3), NaN }
XRangeVals == { F(1), F(2), F(3), NaN, PInf, NInf }
XOverrides == { None } \cup { Some(F(n)) : n \in { 0, 2, MaxPos } }
YOverrides == { None } \cup { Some(F(n)) : n \in { 0, 2, MaxPos } }
Queries == { F(n) : n \in -1 .. MaxPos + 1 }

RecsX == { [x |-> v, ys |-> [id \in Lines |-> F(0)]] : v \in XVals }
RecsXRange == { [x |-> v, ys |-> [id \in Lines |-> F(0)]] : v \in XRangeVals }
RecsY == { [x |-> F(0), ys |-> y] : y \in [Lines -> YVals] }

\* a few records with X and both lines
RecsXY == { [x |-> F(1), ys |-> << F(1), F(3) >>],
            [x |-> F(3), ys |-> << F(3), F(1) >>],
            [x |-> NaN, ys |-> << NaN, NaN >>],
            [x |-> F(2), ys |-> << NaN, F(2) >>] }

\* the same with a record whose Y takes two characters to print
RecsLabels == RecsXY \cup { [x |-> F(4), ys |-> << F(12), F(1) >>] }

\* the values a replacement of the source data can take from the current one
Replacements(recs) ==
    { << >> }
      \cup { Append(data, r) : r \in { r \in recs : Len(data) < MaxLen } }
      \cup { SubSeq(data, 1, Len(data) - 1) : n \in { n \in { 0 } : Len(data) > 0 } }

Decorations == { "A", "B", "C" }
EdgeLists ==
    { l \in UNION { [1 .. n -> Decorations] : n \in 0 .. MaxEdge } :
        \A i, j \in 1 .. Len(l) : i # j => l[i] # l[j] }
Boxes == { None, Some(<< 0, 0 >>), Some(<< 8, 6 >>) }

FontHeights == { 8, FONT_HEIGHT }
FontWidths == { 5, 7, FONT_WIDTH }
Paddings == { Padding_from(0), [top |-> 1, right |-> 2, bottom |-> 3, left |-> 4] }

\* arguments of data_range: positions with repeats and non-finite entries, and
\* as many data values, in an order of their own
CallPositionVals == { F(1), F(2), NaN, PInf }
CallPositions == UNION { [1 .. n -> CallPositionVals] : n \in 0 .. MaxLen }
CallValues(n) == [i \in 1 .. n |-> F(10 * (MaxLen + 1 - i))]

Aspects == { << ALL_ASPECT_OPTIONS[i], ALL_ASPECT_CALCS[j] >> : i, j \in 1 .. 3 }
Widths == { 800, 400 }
Heights == { 600, 300 }
Ratios == { 1, 2 }

\* the edge options of the playground
ALL_EDGE_OPTIONS == << "RotatedLabel", "Legend", "TickLabels" >>
EdgeOptions == { ALL_EDGE_OPTIONS[i] : i \in 1 .. Len(ALL_EDGE_OPTIONS) }
\* every list of at most MaxLen options
OptionLists == UNION { [1 .. n -> EdgeOptions] : n \in 0 .. MaxLen }
\* the indexes of a call: every index of the longest list and two beyond
OptionIndexes == 0 .. (MaxLen + 1)

\* ------------------------------------------------------------------ actions
\* Series::use_data, the memos that read the source data: each is recomputed
\* from its inputs when the data signal changes
data_memos(d) ==
    /\ data_x' = data_x_memo(d)
    /\ data_y_lines' = y_maker(d, TRUE)
    /\ data_y_positions' = y_maker(d, FALSE)
    /\ positions_x' = positions_memo(data_x')
    /\ positions_y_lines' = [id \in Lines |-> positions_memo(data_y_positions'[id])]
    /\ range_y_lines' = range_y_lines_memo(positions_y_lines', data_y_positions')

\* the memos below the ranges: position_range, and the projection of a
\* rendered chart, which reads position_range
below_ranges(rx, ry) ==
    /\ position_range' = position_range_memo(rx, ry)
    /\ projection' = IF IsSome(layout)
                     THEN projection_memo(Unwrap(layout), position_range')
                     ELSE None
    /\ UNCHANGED << edgeProps, watch_bounds, composed, layout, fontVars, callVars, playVars >>

\* the caller replaces the source data
SetData(d) ==
    /\ d # data
    /\ data' = d
    /\ data_memos(d)
    /\ range_x' = range_x_memo(positions_x', data_x', min_x, max_x)
    /\ range_y' = range_y_memo(range_y_lines', min_y, max_y)
    /\ below_ranges(range_x', range_y')
    /\ UNCHANGED << min_x, max_x, min_y, max_y, pos_x >>

\* an override signal changes: the range memo that reads it is recomputed
SetMinX(o) ==
    /\ o # min_x
    /\ min_x' = o
    /\ range_x' = range_x_memo(positions_x, data_x, o, max_x)
    /\ below_ranges(range_x', range_y)
    /\ UNCHANGED << data, max_x, min_y, max_y, data_x, data_y_lines, data_y_positions,
                    positions_x, positions_y_lines, range_y_lines, range_y, pos_x >>

SetMaxX(o) ==
    /\ o # max_x
    /\ max_x' = o
    /\ range_x' = range_x_memo(positions_x, data_x, min_x, o)
    /\ below_ranges(range_x', range_y)
    /\ UNCHANGED << data, min_x, min_y, max_y, data_x, data_y_lines, data_y_positions,
                    positions_x, positions_y_lines, range_y_lines, range_y, pos_x >>

SetMinY(o) ==
    /\ o # min_y
    /\ min_y' = o
    /\ range_y' = range_y_memo(range_y_lines, o, max_y)
    /\ below_ranges(range_x, range_y')
    /\ UNCHANGED << data, min_x, max_x, max_y, data_x, data_y_lines, data_y_positions,
                    positions_x, positions_y_lines, range_x, range_y_lines, pos_x >>

SetMaxY(o) ==
    /\ o # max_y
    /\ max_y' = o
    /\ range_y' = range_y_memo(range_y_lines, min_y, o)
    /\ below_ranges(range_x, range_y')
    /\ UNCHANGED << data, min_x, max_x, min_y, data_x, data_y_lines, data_y_positions,
                    positions_x, positions_y_lines, range_x, range_y_lines, pos_x >>

\* the pointer moves: the query signal of nearest_index changes
Query(q) ==
    /\ q # pos_x
    /\ pos_x' = q
    /\ UNCHANGED << dataVars, chartVars, fontVars, callVars, playVars >>

\* the container is measured (or its measurement is lost); RenderChart exists
\* exactly while the Show condition holds
Observe(box) ==
    /\ box # watch_bounds
    /\ watch_bounds' = box
    /\ composed' = IF have_dimensions(box)
                   THEN Some(chart_edges(top, right, bottom, left))
                   ELSE None
    /\ layout' = IF have_dimensions(box)
                 THEN Some(compose(Unwrap(composed'), Unwrap(box)))
                 ELSE None
    /\ projection' = IF have_dimensions(box)
                     THEN projection_memo(Unwrap(layout'), position_range)
                     ELSE None
    /\ UNCHANGED << dataVars, pos_x, edgeProps, fontVars, callVars, playVars >>

\* a supplied font or padding prop is a signal whose value the caller changes;
\* the memos that read it are recomputed
SetFontHeight(v) ==
    /\ IsSome(font_height_prop) /\ font_height_prop # Some(v)
    /\ font_height_prop' = Some(v)
    /\ font_height' = font_height_memo(font_height_prop')
    /\ UNCHANGED << dataVars, pos_x, chartVars, callVars, playVars, font_width_prop, padding_prop,
                    font_width, padding >>

SetFontWidth(v) ==
    /\ IsSome(font_width_prop) /\ font_width_prop # Some(v)
    /\ font_width_prop' = Some(v)
    /\ font_width' = font_width_memo(font_width_prop')
    /\ padding' = padding_memo(padding_prop, font_width')
    /\ UNCHANGED << dataVars, pos_x, chartVars, callVars, playVars, font_height_prop, padding_prop,
                    font_height >>

SetPadding(p) ==
    /\ IsSome(padding_prop) /\ padding_prop # Some(p)
    /\ padding_prop' = Some(p)
    /\ padding' = padding_memo(padding_prop', font_width)
    /\ UNCHANGED << dataVars, pos_x, chartVars, callVars, playVars, font_height_prop, font_width_prop,
                    font_height, font_width >>

\* a call of data_range returns
CallDataRange ==
    /\ call_result = None
    /\ call_result' = Some(data_range(call_positions, call_values))
    /\ UNCHANGED << dataVars, pos_x, chartVars, fontVars, call_positions, call_values,
                    playVars >>

\* the chart reads the signal derive_aspect_ratio returns
DeriveAspectRatio ==
    /\ aspect_ratio = None
    /\ aspect_ratio' = Some(derive_aspect_ratio(aspect, width, height, ratio))
    /\ UNCHANGED << dataVars, pos_x, chartVars, fontVars, callVars, optionsVars,
                    aspect, width, height, ratio >>

\* options.set(options.get().<operation>): the signal keeps its list when the
\* operation panics
options_set(list, outcome) == IF outcome = Panic THEN list ELSE outcome.v

\* OptionsCard on_new_line: the selected option is added
OptionsAdd(opt) ==
    /\ options_call = None
    /\ options_call' = Some([op |-> "add", index |-> 0, list |-> options])
    /\ options_result' = Some(add(options, opt))
    /\ options' = options_set(options, Unwrap(options_result'))
    /\ UNCHANGED << dataVars, pos_x, chartVars, fontVars, callVars, aspectVars >>

\* OptionsCard on_move_up
OptionsMoveUp(index) ==
    /\ options_call = None
    /\ options_call' = Some([op |-> "move_up", index |-> index, list |-> options])
    /\ options_result' = Some(move_up(options, index))
    /\ options' = options_set(options, Unwrap(options_result'))
    /\ UNCHANGED << dataVars, pos_x, chartVars, fontVars, callVars, aspectVars >>

\* OptionsCard on_move_down, in a build with or without overflow checks
OptionsMoveDown(index, overflow_checks) ==
    /\ options_call = None
    /\ options_call' = Some([op |-> "move_down", index |-> index, list |-> options])
    /\ options_result' = Some(move_down(options, index, overflow_checks))
    /\ options' = options_set(options, Unwrap(options_result'))
    /\ UNCHANGED << dataVars, pos_x, chartVars, fontVars, callVars, aspectVars >>

\* OptionsCard on_remove
OptionsRemove(index) ==
    /\ options_call = None
    /\ options_call' = Some([op |-> "remove", index |-> index, list |-> options])
    /\ options_result' = Some(remove(options, index))
    /\ options' = options_set(options, Unwrap(options_result'))
    /\ UNCHANGED << dataVars, pos_x, chartVars, fontVars, callVars, aspectVars >>

\* ------------------------------------------------------------------ specifications
\* the font and padding memos of a chart built with the given props
font_memos ==
    /\ font_height = font_height_memo(font_height_prop)
    /\ font_width = font_width_memo(font_width_prop)
    /\ padding = padding_memo(padding_prop, font_width)

\* no call of data_range under observation
InitCall == call_positions = << >> /\ call_values = << >> /\ call_result = None

\* the playground as App builds it, nothing derived or applied yet
InitPlayground ==
    /\ aspect = << "Outer", "Ratio" >>
    /\ width = 800 /\ height = 600 /\ ratio = 1
    /\ aspect_ratio = None
    /\ options = << >> /\ options_call = None /\ options_result = None

\* no font or padding prop supplied
InitFont ==
    /\ font_height_prop = None /\ font_width_prop = None /\ padding_prop = None
    /\ font_memos
    /\ InitCall
    /\ InitPlayground

\* each font or padding prop supplied or not
InitFontProps ==
    /\ font_height_prop \in { None, Some(8) }
    /\ font_width_prop \in { None, Some(5) }
    /\ padding_prop \in { None, Some(Padding_from(0)) }
    /\ font_memos

InitData ==
    /\ data = << >>
    /\ min_x = None /\ max_x = None
    /\ min_y = None /\ max_y = None
    /\ data_x = data_x_memo(data)
    /\ data_y_lines = y_maker(data, TRUE)
    /\ data_y_positions = y_maker(data, FALSE)
    /\ positions_x = positions_memo(data_x)
    /\ positions_y_lines = [id \in Lines |-> positions_memo(data_y_positions[id])]
    /\ range_x = range_x_memo(positions_x, data_x, min_x, max_x)
    /\ range_y_lines = range_y_lines_memo(positions_y_lines, data_y_positions)
    /\ range_y = range_y_memo(range_y_lines, min_y, max_y)
    /\ position_range = position_range_memo(range_x, range_y)
    /\ pos_x = F(0)

InitNoEdges ==
    /\ top = << >> /\ right = << >> /\ bottom = << >> /\ left = << >>
    /\ inner = << >>
    /\ watch_bounds = None
    /\ composed = None
    /\ layout = None
    /\ projection = None

InitEdges ==
    /\ top \in EdgeLists /\ right \in EdgeLists
    /\ bottom \in EdgeLists /\ left \in EdgeLists
    /\ inner = << >>
    /\ watch_bounds = None
    /\ composed = None
    /\ layout = None
    /\ projection = None

Init == InitData /\ InitNoEdges /\ InitFont

\* nearest-index queries over X data
NextNearest ==
    \/ \E d \in Replacements(RecsX) : SetData(d)
    \/ \E q \in Queries : Query(q)

SpecNearest == Init /\ [][NextNearest]_vars

\* nearest-value lookups: records with X and Y, and the pointer
NextNearestXY ==
    \/ \E d \in Replacements(RecsXY) : SetData(d)
    \/ \E q \in Queries : Query(q)

SpecNearestXY == Init /\ [][NextNearestXY]_vars

\* the X range: X data and X overrides
NextRangeX ==
    \/ \E d \in Replacements(RecsXRange) : SetData(d)
    \/ \E o \in XOverrides : SetMinX(o)
    \/ \E o \in XOverrides : SetMaxX(o)

SpecRangeX == Init /\ [][NextRangeX]_vars

\* the Y range: the Y data of every line and Y overrides
NextRangeY ==
    \/ \E d \in Replacements(RecsY) : SetData(d)
    \/ \E o \in YOverrides : SetMinY(o)
    \/ \E o \in YOverrides : SetMaxY(o)

SpecRangeY == Init /\ [][NextRangeY]_vars

\* the Chart component: edge props and the observed container
InitChart == InitData /\ InitEdges /\ InitFont

NextChart == \E box \in Boxes : Observe(box)

SpecChart == InitChart /\ [][NextChart]_vars

\* a rendered chart whose data, overrides and container change
InitProjection ==
    /\ InitData
    /\ InitFont
    /\ top \in { << >>, << "A" >> } /\ left \in { << >>, << "B" >> }
    /\ right = << >> /\ bottom = << >>
    /\ inner = << top_edge, right_edge, bottom_edge, left_edge, horizontal_zero, vertical_zero >>
    /\ watch_bounds = None
    /\ composed = None
    /\ layout = None
    /\ projection = None

NextProjection ==
    \/ \E d \in Replacements(RecsXY) : SetData(d)
    \/ \E o \in YOverrides : SetMinY(o)
    \/ \E box \in Boxes : Observe(box)
    \/ \E q \in { F(0), F(1) } : Query(q)

SpecProjection == InitProjection /\ [][NextProjection]_vars

\* the data and all four overrides change
NextRanges ==
    \/ \E d \in Replacements(RecsXY) : SetData(d)
    \/ \E o \in XOverrides : SetMinX(o)
    \/ \E o \in XOverrides : SetMaxX(o)
    \/ \E o \in YOverrides : SetMinY(o)
    \/ \E o \in YOverrides : SetMaxY(o)

SpecRanges == Init /\ [][NextRanges]_vars

\* charts with and without font and padding props, whose values and data change
InitFontChart == InitData /\ InitNoEdges /\ InitFontProps /\ InitCall /\ InitPlayground

NextFont ==
    \/ \E v \in FontHeights : SetFontHeight(v)
    \/ \E v \in FontWidths : SetFontWidth(v)
    \/ \E p \in Paddings : SetPadding(p)
    \/ \E d \in Replacements(RecsLabels) : SetData(d)

SpecFont == InitFontChart /\ [][NextFont]_vars

\* data_range on its own: every pair of arguments, then the call
InitDataRange ==
    /\ InitData /\ InitNoEdges
    /\ font_height_prop = None /\ font_width_prop = None /\ padding_prop = None
    /\ font_memos
    /\ call_positions \in CallPositions
    /\ call_values = CallValues(Len(call_positions))
    /\ call_result = None
    /\ InitPlayground

NextDataRange == CallDataRange

SpecDataRange == InitDataRange /\ [][NextDataRange]_vars

\* derive_aspect_ratio on its own: every mode and a few sizes, then the read
InitAspect ==
    /\ InitData /\ InitNoEdges
    /\ font_height_prop = None /\ font_width_prop = None /\ padding_prop = None
    /\ font_memos
    /\ InitCall
    /\ aspect \in Aspects
    /\ width \in Widths /\ height \in Heights /\ ratio \in Ratios
    /\ aspect_ratio = None
    /\ options = << >> /\ options_call = None /\ options_result = None

NextAspect == DeriveAspectRatio

SpecAspect == InitAspect /\ [][NextAspect]_vars

\* one operation on one Options list
InitOptions ==
    /\ InitData /\ InitNoEdges
    /\ font_height_prop = None /\ font_width_prop = None /\ padding_prop = None
    /\ font_memos
    /\ InitCall
    /\ aspect = << "Outer", "Ratio" >>
    /\ width = 800 /\ height = 600 /\ ratio = 1
    /\ aspect_ratio = None
    /\ options \in OptionLists /\ options_call = None /\ options_result = None

NextOptions ==
    \/ \E opt \in EdgeOptions : OptionsAdd(opt)
    \/ \E index \in OptionIndexes : OptionsMoveUp(index)
    \/ \E index \in OptionIndexes, overflow_checks \in BOOLEAN :
           OptionsMoveDown(index, overflow_checks)
    \/ \E index \in OptionIndexes : OptionsRemove(index)

SpecOptions == InitOptions /\ [][NextOptions]_vars

\* ------------------------------------------------------------------ claims
\* an ascending array of positions: no NaN, each element <= its successor
Ascending(positions) ==
    /\ \A i \in Indexes(positions) : ~IsNaN(At(positions, i))
    /\ \A i \in Indexes(positions) :
           i + 1 < Len(positions) => Le(At(positions, i), At(positions, i + 1))

Distance(p, q) == Abs(Sub(p, q))

C2_NoneIffEmptyAndClamps ==
    /\ (None \in nearest_index(positions_x, pos_x)) <=> (Len(positions_x) = 0)
    /\ (Len(positions_x) = 0) => nearest_index(positions_x, pos_x) = { None }
    /\ (Len(positions_x) > 0 /\ Ascending(positions_x)) =>
          /\ Lt(pos_x, At(positions_x, 0))
                 => nearest_index(positions_x, pos_x) = { Some(0) }
          /\ Lt(At(positions_x, Len(positions_x) - 1), pos_x)
                 => nearest_index(positions_x, pos_x) = { Some(Len(positions_x) - 1) }

\* a query above the last of three ascending positions
C2_Witness ==
    /\ Len(positions_x) = 3
    /\ Ascending(positions_x)
    /\ Lt(At(positions_x, 2), pos_x)
    /\ nearest_index(positions_x, pos_x) = { Some(2) }

\* q lies strictly between the finite positions at i and i + 1, equally far
\* from both
Midway(positions, i, q) ==
    /\ i + 1 < Len(positions)
    /\ is_finite(At(positions, i)) /\ is_finite(At(positions, i + 1))
    /\ Lt(At(positions, i), q) /\ Lt(q, At(positions, i + 1))
    /\ Sub(q, At(positions, i)) = Sub(At(positions, i + 1), q)

\* C3: a query exactly midway between two adjacent positions of an ascending
\* array returns the earlier (lower) of the two indexes.
C3_MidwayPicksEarlier ==
    Ascending(positions_x) =>
        \A i \in Indexes(positions_x) :
            Midway(positions_x, i, pos_x)
                => nearest_index(positions_x, pos_x) = { Some(i) }

\* the case of the example: three positions, the query midway between the
\* first two
C3_Witness ==
    /\ Len(positions_x) = 3
    /\ Ascending(positions_x)
    /\ Midway(positions_x, 0, pos_x)
    /\ nearest_index(positions_x, pos_x) = { Some(0) }

\* the candidate found by the binary search lies inside the array and is
\* exactly as far from q as its predecessor
ExactTie(positions, q, index) ==
    /\ 0 < index /\ index < Len(positions)
    /\ ~IsNaN(Sub(At(positions, index), q))
    /\ Sub(At(positions, index), q) = Sub(q, At(positions, index - 1))

\* C4 as stated: on an exact distance tie between the candidate and its
\* predecessor, nearest_index picks the later index (the candidate).
C4_TiePicksLater ==
    Ascending(positions_x) =>
        \A index \in partition_point(positions_x, pos_x) :
            ExactTie(positions_x, pos_x, index)
                => nearest_index(positions_x, pos_x) = { Some(index) }

\* C4 as amended: on an exact distance tie between the candidate and its
\* predecessor, "ahead < before" is false and nearest_index picks the earlier
\* index (the predecessor).
C4_TiePicksPredecessor ==
    Ascending(positions_x) =>
        \A index \in partition_point(positions_x, pos_x) :
            ExactTie(positions_x, pos_x, index)
                => nearest_index(positions_x, pos_x) = { Some(index - 1) }

\* a tie whose candidate is the last of three positions
C4_Witness ==
    /\ Len(positions_x) = 3
    /\ Ascending(positions_x)
    /\ partition_point(positions_x, pos_x) = { 2 }
    /\ ExactTie(positions_x, pos_x, 2)
    /\ nearest_index(positions_x, pos_x) = { Some(1) }
\* the finite positions of an array, and the extent of a set of positions
FiniteOf(positions) ==
    { At(positions, i) : i \in { i \in Indexes(positions) : is_finite(At(positions, i)) } }
Specified(mn, mx) == { Unwrap(o) : o \in { o \in { mn, mx } : IsSome(o) } }
SetMin(S) == CHOOSE m \in S : \A e \in S : Le(m, e)
SetMax(S) == CHOOSE m \in S : \A e \in S : Le(e, m)
Extent(S) == IF S = { } THEN None ELSE Some(<< SetMin(S), SetMax(S) >>)
RangePositions(r) ==
    IF IsSome(r) THEN Some(<< position(Unwrap(r)[1]), position(Unwrap(r)[2]) >>) ELSE None
Inverted(mn, mx) == IsSome(mn) /\ IsSome(mx) /\ Lt(Unwrap(mx), Unwrap(mn))

\* C5 as stated: range_x is the minimum and maximum, by position, over the
\* union of the finite data X values and every specified override value.
C5_RangeXIsUnionExtent ==
    RangePositions(range_x) = Extent(FiniteOf(positions_x) \cup Specified(min_x, max_x))

\* C5 as amended: the same, provided the two overrides are not both specified
\* with the min override above the max override.
C5_RangeXIsUnionExtentUnlessInverted ==
    ~Inverted(min_x, max_x) =>
        RangePositions(range_x)
            = Extent(FiniteOf(positions_x) \cup Specified(min_x, max_x))

\* three finite X values and a lone min override above all of them: the
\* override becomes the upper end, the data minimum stays the lower end
C5_Witness ==
    /\ Len(positions_x) = 3
    /\ \A i \in Indexes(positions_x) : is_finite(At(positions_x, i))
    /\ IsSome(min_x) /\ max_x = None
    /\ \A i \in Indexes(positions_x) : Lt(At(positions_x, i), Unwrap(min_x))
    /\ range_x = Some(<< SetMin(FiniteOf(positions_x)), Unwrap(min_x) >>)

\* C6: for the same data positions and the same overrides range_y equals what
\* range_x computes (stated for the states in which every line holds the same
\* data, so that "the same data positions" names one array).
C6_RangeYLikeRangeX ==
    (\A id \in Lines : data_y_positions[id] = data_y_positions[LineIds[1]]) =>
        range_y = range_x_memo(positions_y_lines[LineIds[1]],
                               data_y_positions[LineIds[1]], min_y, max_y)

\* C7: range_y takes its minimum over the per-line minima of all lines and its
\* maximum over the per-line maxima of all lines (together with the override
\* of that end, if any), so every finite Y position of every line lies inside
\* range_y.
C7_RangeYCoversAllLines ==
    LET fin == UNION { FiniteOf(positions_y_lines[id]) : id \in Lines }
    IN /\ fin # { } =>
              /\ IsSome(range_y)
              /\ \A p \in fin : /\ Le(position(Unwrap(range_y)[1]), p)
                                /\ Le(p, position(Unwrap(range_y)[2]))
       /\ IsSome(range_y) =>
              /\ position(Unwrap(range_y)[1]) = SetMin(fin \cup Specified(min_y, None))
              /\ position(Unwrap(range_y)[2]) = SetMax(fin \cup Specified(None, max_y))

\* two lines with different extents and no override: the lower end comes from
\* the second line, the upper end from the first
C7_Witness ==
    /\ min_y = None /\ max_y = None
    /\ IsSome(range_y_lines[1]) /\ IsSome(range_y_lines[2])
    /\ IsSome(range_y)
    /\ Lt(Unwrap(range_y_lines[2])[1], Unwrap(range_y_lines[1])[1])
    /\ Lt(Unwrap(range_y_lines[2])[2], Unwrap(range_y_lines[1])[2])
    /\ Unwrap(range_y)[1] = Unwrap(range_y_lines[2])[1]
    /\ Unwrap(range_y)[2] = Unwrap(range_y_lines[1])[2]

FiniteRange(r) == IsSome(r) => (is_finite(position(Unwrap(r)[1])) /\ is_finite(position(Unwrap(r)[2])))

\* C8: a non-finite position (NaN, +inf, -inf) never becomes an endpoint of a
\* range computed by data_range, which is None exactly when no position is
\* finite; data_x and positions_x keep one entry per record, the non-finite
\* ones included.
C8_NonFiniteExcludedButRetained ==
    LET r == data_range(positions_x, data_x)
    IN /\ FiniteRange(r)
       /\ IsSome(r) <=> (FiniteOf(positions_x) # { })
       /\ (min_x = None /\ max_x = None) => range_x = r
       /\ \A id \in Lines :
              /\ FiniteRange(range_y_lines[id])
              /\ IsSome(range_y_lines[id]) <=> (FiniteOf(positions_y_lines[id]) # { })
       /\ Len(data_x) = Len(data) /\ Len(positions_x) = Len(data)
       /\ \A i \in 1 .. Len(data) :
              /\ data_x[i] = data[i].x
              /\ positions_x[i] = position(data[i].x)

\* +inf first, then a finite value, then NaN: the range is the finite value
C8_Witness ==
    /\ Len(data) = 3
    /\ positions_x[1] = PInf /\ is_finite(positions_x[2]) /\ positions_x[3] = NaN
    /\ min_x = None /\ max_x = None
    /\ range_x = Some(<< data_x[2], data_x[2] >>)

\* C9: data_x, positions_x, every data_y line array and every positions_y line
\* array have the length of the current source record sequence, index i of
\* each being derived from record i.
C9_ArraysAligned ==
    /\ Len(data_x) = Len(data) /\ Len(positions_x) = Len(data)
    /\ \A id \in Lines :
           /\ Len(data_y_lines[id]) = Len(data)
           /\ Len(data_y_positions[id]) = Len(data)
           /\ Len(positions_y_lines[id]) = Len(data)
    /\ \A i \in 1 .. Len(data) :
           /\ data_x[i] = get_x(data[i])
           /\ positions_x[i] = position(get_x(data[i]))
           /\ \A id \in Lines :
                  /\ data_y_lines[id][i] = get_y_value(id, data[i])
                  /\ positions_y_lines[id][i] = position(get_y_position(id, data[i]))

\* the data was replaced by three records, one of them with a NaN on a line
C9_Witness ==
    /\ Len(data) = 3
    /\ \E i \in 1 .. Len(data) : data[i].ys[1] = NaN /\ data_y_lines[1][i] = NaN
    /\ \E i \in 1 .. Len(data) : is_finite(data[i].ys[2])
    /\ Len(data_y_lines[1]) = 3 /\ Len(positions_y_lines[2]) = 3

\* C10: of two top (or two left) decorations the one declared first is placed
\* further from the plot; Chart hands the top and left lists to
\* Layout::compose in reverse declaration order and the right and bottom lists
\* in declaration order, unchanged.
C10_TopLeftReversed ==
    IsSome(composed) =>
        LET c == Unwrap(composed)
        IN /\ \A i, j \in 1 .. Len(top) :
                  i < j => compose_depth(c.top, top[i]) > compose_depth(c.top, top[j])
           /\ \A i, j \in 1 .. Len(left) :
                  i < j => compose_depth(c.left, left[i]) > compose_depth(c.left, left[j])
           /\ Len(c.top) = Len(top) /\ Len(c.left) = Len(left)
           /\ \A i \in 1 .. Len(top) : c.top[i] = top[Len(top) + 1 - i]
           /\ \A i \in 1 .. Len(left) : c.left[i] = left[Len(left) + 1 - i]
           /\ c.right = right
           /\ c.bottom = bottom

\* the chart is rendered with two decorations on every edge
C10_Witness ==
    /\ IsSome(composed)
    /\ Len(top) = 2 /\ Len(left) = 2 /\ Len(right) = 2 /\ Len(bottom) = 2
    /\ Unwrap(composed).top[1] = top[2]
    /\ Unwrap(composed).right[1] = right[1]

\* ------------------------------------------------------------------ C11
\* the chart body is rendered: its edges are composed, its layout and its
\* projection exist
Rendered == IsSome(composed) /\ IsSome(layout) /\ IsSome(projection)
Placeholder == composed = None /\ layout = None /\ projection = None

\* C11: the chart body (layout composition and Projection) exists exactly while
\* the observed container box is Some; while it is None nothing of the body
\* exists, no Projection included; and the bounds of the Projection are the
\* inner bounds of the layout that Layout::compose returned for the observed
\* box, not its outer bounds
C11_BodyIffBoxAndProjectionFromInner ==
    /\ IsSome(watch_bounds) => Rendered
    /\ watch_bounds = None => Placeholder
    /\ Rendered =>
        /\ Unwrap(layout) = compose(Unwrap(composed), Unwrap(watch_bounds))
        /\ Unwrap(projection).bounds = Unwrap(layout).inner

\* a measured container with decorations on an edge: inner and outer differ
C11_Witness ==
    /\ watch_bounds = Some(<< 8, 6 >>)
    /\ top # << >>
    /\ Rendered
    /\ Unwrap(layout).inner # Unwrap(layout).outer
    /\ Unwrap(projection).bounds = Unwrap(layout).inner

\* ------------------------------------------------------------------ C12
\* C12: while the chart is rendered its Projection is the one built from the
\* current inner bounds and the current position range, themselves the values
\* of the current container box, edges, X range and Y range: no consumer sees
\* a Projection of earlier inputs, and nothing else enters it
C12_ProjectionOfCurrentInputs ==
    /\ position_range = position_range_memo(range_x, range_y)
    /\ IsSome(projection) =>
        Unwrap(projection) =
            Projection_new(compose(Unwrap(composed), Unwrap(watch_bounds)).inner,
                           position_range)

\* a rendered chart with decorations whose data span a proper range
C12_Witness ==
    /\ IsSome(projection)
    /\ left # << >>
    /\ Len(data) >= 2
    /\ min_y = Some(F(0))
    /\ position_range = from_points(F(1), F(0), F(3), F(3))
    /\ Unwrap(projection).range = position_range
    /\ Unwrap(projection).bounds = [left |-> 2, top |-> 0, right |-> 8, bottom |-> 6]

\* ------------------------------------------------------------------ C14
FiniteY == UNION { FiniteOf(positions_y_lines[id]) : id \in Lines }

\* C14: for every pair of overrides, ascending, equal or inverted (min above
\* max), the reconciled range exists and is componentwise: its lower end is the
\* least of the finite data positions and the min override, its upper end the
\* greatest of the finite data positions and the max override; on X and on Y
C14_OverridePairComponentwise ==
    /\ (IsSome(min_x) /\ IsSome(max_x)) =>
         RangePositions(range_x) =
            Some(<< SetMin(FiniteOf(positions_x) \cup { Unwrap(min_x) }),
                    SetMax(FiniteOf(positions_x) \cup { Unwrap(max_x) }) >>)
    /\ (IsSome(min_y) /\ IsSome(max_y)) =>
         RangePositions(range_y) =
            Some(<< SetMin(FiniteY \cup { Unwrap(min_y) }),
                    SetMax(FiniteY \cup { Unwrap(max_y) }) >>)

\* both pairs inverted around data: X data {1} with overrides (2, 0), Y data
\* {1, 3} with overrides (4, 0)
C14_Witness ==
    /\ Inverted(min_x, max_x) /\ Inverted(min_y, max_y)
    /\ min_x = Some(F(2)) /\ max_x = Some(F(0))
    /\ min_y = Some(F(MaxPos)) /\ max_y = Some(F(0))
    /\ FiniteOf(positions_x) = { F(1) }
    /\ FiniteY = { F(1), F(3) }
    /\ range_x = Some(<< F(1), F(1) >>)
    /\ range_y = Some(<< F(1), F(3) >>)

\* ------------------------------------------------------------------ C15
\* the markers of one constructor among the inner decorations
MarkersOf(kind) == { i \in 1 .. Len(inner) : inner[i] = kind }

\* C15: in a rendered chart a horizontal_zero marker is the line from the left
\* to the right of the projection's bounds at the Y that data_to_svg gives the
\* value 0, whatever the X; a vertical_zero marker is the line from the bottom
\* to the top of the bounds at the X that data_to_svg gives the value 0,
\* whatever the Y
C15_ZeroMarkersAtProjectedZero ==
    IsSome(projection) =>
        LET proj == Unwrap(projection)
            b == bounds(proj)
        IN /\ \A i \in MarkersOf(horizontal_zero) : \A x \in Queries :
                AxisMarker_pos(inner[i], proj) =
                    << b.left, data_to_svg(proj, x, F(0))[2],
                       b.right, data_to_svg(proj, x, F(0))[2] >>
           /\ \A i \in MarkersOf(vertical_zero) : \A y \in Queries :
                AxisMarker_pos(inner[i], proj) =
                    << data_to_svg(proj, F(0), y)[1], b.bottom,
                       data_to_svg(proj, F(0), y)[1], b.top >>

\* a rendered chart whose data lie off zero on both axes: the zero lines are
\* away from the bottom and left edges of the plot area
C15_Witness ==
    /\ IsSome(projection)
    /\ MarkersOf(horizontal_zero) # { } /\ MarkersOf(vertical_zero) # { }
    /\ Unwrap(projection).range = from_points(F(1), F(1), F(3), F(3))
    /\ Unwrap(projection).bounds = [left |-> 2, top |-> 1, right |-> 8, bottom |-> 6]
    /\ AxisMarker_pos(horizontal_zero, Unwrap(projection)) = << 2, 9, 8, 9 >>
    /\ AxisMarker_pos(vertical_zero, Unwrap(projection)) = << -1, 6, -1, 1 >>

\* ------------------------------------------------------------------ C16
\* tick labels on a horizontal edge (X ticks) and on a vertical edge (Y ticks)
XTicks == generate(range_x)
YTicks == generate(range_y)
BottomTickLabelsHeight == TickLabelsAttr_height(apply_attr(TickLabels_new, Attr))
LeftTickLabelsWidth == UseTickLabels_width(apply_attr(TickLabels_new, Attr), YTicks)

\* C16 as stated: with empty data a tick-label decoration reserves no thickness,
\* on a horizontal and on a vertical edge
C16_EmptyDataZeroThickness ==
    data = << >> => (BottomTickLabelsHeight = 0 /\ LeftTickLabelsWidth = 0)

\* C16 as amended: with empty data there are no ticks, every thickness is
\* defined, and a tick-label decoration reserves the font height plus the
\* vertical padding on a horizontal edge and the horizontal padding alone (no
\* characters) on a vertical edge
C16_EmptyDataFontAndPadding ==
    data = << >> =>
        /\ XTicks = << >> /\ YTicks = << >>
        /\ BottomTickLabelsHeight = font_height + padding.top + padding.bottom
        /\ LeftTickLabelsWidth = padding.left + padding.right
        /\ BottomTickLabelsHeight \in Nat /\ LeftTickLabelsWidth \in Nat

\* no data in a chart whose font height and padding props were changed
C16_Witness ==
    /\ data = << >>
    /\ font_height = 8 /\ font_width = FONT_WIDTH
    /\ padding = [top |-> 1, right |-> 2, bottom |-> 3, left |-> 4]
    /\ BottomTickLabelsHeight = 12
    /\ LeftTickLabelsWidth = 6

\* ------------------------------------------------------------------ C17
\* the values stored at the indexes nearest_index can choose
StoredAtNearest(values) ==
    { At(values, Unwrap(index)) : index \in nearest_index(positions_x, pos_x) }

\* C17: with no data nearest_position_x is NaN, nearest_data_x is None and
\* nearest_data_y is None for every line; with data each of them is the value
\* its array stores at the index nearest_index chooses (the X position, Some of
\* the X value, Some of the line's Y value, a non-finite one included)
C17_NearestValuesAtNearestIndex ==
    /\ data = << >> =>
        /\ nearest_position_x(positions_x, pos_x) = { NaN }
        /\ nearest_data_x(data_x, positions_x, pos_x) = { None }
        /\ \A id \in Lines :
              nearest_data_y(data_y_lines, positions_x, pos_x)[id] = { None }
    /\ data # << >> =>
        /\ nearest_position_x(positions_x, pos_x) = StoredAtNearest(positions_x)
        /\ nearest_data_x(data_x, positions_x, pos_x) =
              { Some(v) : v \in StoredAtNearest(data_x) }
        /\ \A id \in Lines :
              nearest_data_y(data_y_lines, positions_x, pos_x)[id] =
                  { Some(v) : v \in StoredAtNearest(data_y_lines[id]) }

\* the pointer at X = 2 over records at X = 1 and X = 2, the second with a NaN
\* on the first line
C17_Witness ==
    /\ Len(data) = 2
    /\ positions_x = << F(1), F(2) >>
    /\ pos_x = F(2)
    /\ nearest_index(positions_x, pos_x) = { Some(1) }
    /\ nearest_position_x(positions_x, pos_x) = { F(2) }
    /\ nearest_data_x(data_x, positions_x, pos_x) = { Some(F(2)) }
    /\ nearest_data_y(data_y_lines, positions_x, pos_x) =
          [id \in Lines |-> IF id = LineIds[1] THEN { Some(NaN) } ELSE { Some(F(2)) }]

\* ------------------------------------------------------------------ C18
\* C18: without a padding prop the chart padding is the current font width on
\* all four sides, through every change of the font width; with a padding prop
\* it is the prop's value whatever the font width; without a font height prop
\* the font height is 16, without a font width prop the font width is 10, and
\* a supplied font width is the one in force
C18_PaddingFollowsFontWidth ==
    /\ padding_prop = None =>
          padding = [top |-> font_width, right |-> font_width,
                     bottom |-> font_width, left |-> font_width]
    /\ IsSome(padding_prop) => padding = Unwrap(padding_prop)
    /\ font_height_prop = None => font_height = 16
    /\ font_width_prop = None => font_width = 10
    /\ IsSome(font_width_prop) => font_width = Unwrap(font_width_prop)

\* no padding prop, and a font width prop that was changed from 5 to 7
C18_Witness ==
    /\ padding_prop = None
    /\ font_height_prop = None
    /\ font_width_prop = Some(7)
    /\ font_height = 16
    /\ padding = [top |-> 7, right |-> 7, bottom |-> 7, left |-> 7]

\* ------------------------------------------------------------------ C19
\* C19: when no X position of the data is finite (no records, or only NaN and
\* infinite ones), range_x is None without overrides, (v, v) with the single
\* override v, whichever of the two it is, and with both overrides the pair
\* (min override, max override) as given, in that order
C19_NoFiniteXRangeFromOverrides ==
    FiniteOf(positions_x) = { } =>
        /\ (min_x = None /\ max_x = None) => range_x = None
        /\ (IsSome(min_x) /\ max_x = None) =>
              range_x = Some(<< Unwrap(min_x), Unwrap(min_x) >>)
        /\ (min_x = None /\ IsSome(max_x)) =>
              range_x = Some(<< Unwrap(max_x), Unwrap(max_x) >>)
        /\ (IsSome(min_x) /\ IsSome(max_x)) =>
              range_x = Some(<< Unwrap(min_x), Unwrap(max_x) >>)

\* records with a NaN and an infinite X only, and the max override alone
C19_Witness ==
    /\ Len(data) = 2
    /\ NaN \in { At(positions_x, i) : i \in Indexes(positions_x) }
    /\ PInf \in { At(positions_x, i) : i \in Indexes(positions_x) }
    /\ min_x = None /\ max_x = Some(F(2))
    /\ range_x = Some(<< F(2), F(2) >>)

\* ------------------------------------------------------------------ C20
\* the indexes of the finite positions, and the first index holding the least
\* and the greatest of them
FiniteIndexes(positions) ==
    { i \in Indexes(positions) : is_finite(At(positions, i)) }
FirstIndexOf(positions, p) ==
    CHOOSE i \in Indexes(positions) :
        /\ At(positions, i) = p
        /\ \A j \in Indexes(positions) : At(positions, j) = p => i <= j

\* C20: data_range orders by position, whatever the data values are, and keeps
\* an index only while no later position is strictly smaller (or greater): it
\* returns the data values at the first index of the least finite position and
\* at the first index of the greatest finite position, and None when no
\* position is finite
C20_DataRangeFirstOccurrence ==
    IsSome(call_result) =>
        IF FiniteIndexes(call_positions) = { }
        THEN Unwrap(call_result) = None
        ELSE Unwrap(call_result) =
                Some(<< At(call_values,
                           FirstIndexOf(call_positions, SetMin(FiniteOf(call_positions)))),
                        At(call_values,
                           FirstIndexOf(call_positions, SetMax(FiniteOf(call_positions)))) >>)

\* positions (2, 1, 1) with data values (30, 20, 10), and MaxLen = 3: the least
\* position is first at index 1, the greatest at index 0
C20_Witness ==
    /\ call_positions = << F(2), F(1), F(1) >>
    /\ call_values = << F(10 * MaxLen), F(10 * (MaxLen - 1)), F(10 * (MaxLen - 2)) >>
    /\ call_result = Some(Some(<< F(10 * (MaxLen - 1)), F(10 * MaxLen) >>))

\* ------------------------------------------------------------------ C21
\* the two ends of a range as positions, (0, 0) for an absent range
EndsOrZero(r) ==
    IF r = None THEN << F(0), F(0) >>
    ELSE << position(Unwrap(r)[1]), position(Unwrap(r)[2]) >>

\* C21: position_range is Bounds::from_points(min_x, min_y, max_x, max_y) of
\* the positions of the ends of range_x and range_y, an absent range giving
\* (0, 0) on its axis; with no data and no overrides it is the rectangle of no
\* area at the origin
C21_PositionRangeFromRanges ==
    /\ position_range = from_points(EndsOrZero(range_x)[1], EndsOrZero(range_y)[1],
                                    EndsOrZero(range_x)[2], EndsOrZero(range_y)[2])
    /\ (data = << >> /\ min_x = None /\ max_x = None /\ min_y = None /\ max_y = None) =>
          position_range = [left |-> F(0), top |-> F(0), right |-> F(0), bottom |-> F(0)]

\* data from 1 to 3 on both axes, the X range widened to 0 by the min override
C21_Witness ==
    /\ range_x = Some(<< F(0), F(3) >>)
    /\ range_y = Some(<< F(1), F(3) >>)
    /\ min_x = Some(F(0)) /\ max_x = None
    /\ position_range = [left |-> F(0), top |-> F(1), right |-> F(3), bottom |-> F(3)]

\* ------------------------------------------------------------------ C22
\* the line a marker on the given edge must be, by the corners of the bounds
EdgeLine(edge, b) ==
    CASE edge = "Top" -> << b.left, b.top, b.right, b.top >>
      [] edge = "Bottom" -> << b.left, b.bottom, b.right, b.bottom >>
      [] edge = "Left" -> << b.left, b.bottom, b.left, b.top >>
      [] edge = "Right" -> << b.right, b.bottom, b.right, b.top >>

\* C22: in a rendered chart a marker placed on an edge is the line along that
\* edge of the projection's bounds; and with either placement a Top or Bottom
\* marker is a level line from the left to the right of the bounds, a Left or
\* Right marker an upright line from their bottom to their top
C22_EdgeMarkersOnEdges ==
    IsSome(projection) =>
        LET proj == Unwrap(projection)
            b == bounds(proj)
        IN \A i \in 1 .. Len(inner) :
              LET pos == AxisMarker_pos(inner[i], proj)
              IN /\ inner[i].placement = "Edge" => pos = EdgeLine(inner[i].edge, b)
                 /\ inner[i].edge \in { "Top", "Bottom" } =>
                       (pos[1] = b.left /\ pos[3] = b.right /\ pos[2] = pos[4])
                 /\ inner[i].edge \in { "Left", "Right" } =>
                       (pos[2] = b.bottom /\ pos[4] = b.top /\ pos[1] = pos[3])

\* a rendered chart with a marker on each edge, inside decorations on the top
\* and on the left
C22_Witness ==
    /\ IsSome(projection)
    /\ { top_edge, right_edge, bottom_edge, left_edge } \subseteq { inner[i] : i \in 1 .. Len(inner) }
    /\ bounds(Unwrap(projection)) = [left |-> 2, top |-> 1, right |-> 8, bottom |-> 6]
    /\ AxisMarker_pos(top_edge, Unwrap(projection)) = << 2, 1, 8, 1 >>
    /\ AxisMarker_pos(right_edge, Unwrap(projection)) = << 8, 6, 8, 1 >>
    /\ AxisMarker_pos(bottom_edge, Unwrap(projection)) = << 2, 6, 8, 6 >>
    /\ AxisMarker_pos(left_edge, Unwrap(projection)) = << 2, 6, 2, 1 >>

\* ------------------------------------------------------------------ C23
\* the length of the longest short label among the ticks, 0 for no ticks
LongestLabel(ticks) ==
    IF ticks = << >> THEN 0
    ELSE CHOOSE n \in { short_format_len(ticks[i]) : i \in 1 .. Len(ticks) } :
            \A i \in 1 .. Len(ticks) : short_format_len(ticks[i]) <= n

\* C23: whatever the ticks, tick labels on a horizontal edge are as high as the
\* font height plus the top and bottom padding; tick labels on a vertical edge
\* are as wide as the font width times the length of the longest short label
\* (0 without ticks) plus the left and right padding
C23_TickLabelsThickness ==
    /\ BottomTickLabelsHeight = font_height + padding.top + padding.bottom
    /\ LeftTickLabelsWidth =
          font_width * LongestLabel(YTicks) + padding.left + padding.right

\* ticks 1 and 12 on the Y axis, the shorter label first, with a font width of
\* 7 and an uneven padding
C23_Witness ==
    /\ YTicks = << F(1), F(12) >>
    /\ XTicks # << >>
    /\ font_width = 7 /\ font_height = FONT_HEIGHT
    /\ padding = [top |-> 1, right |-> 2, bottom |-> 3, left |-> 4]
    /\ BottomTickLabelsHeight = 20
    /\ LeftTickLabelsWidth = 20

\* ------------------------------------------------------------------ C24
\* the coordinates RenderData hands to the renderer of a line
LineCoords(id) == svg_coords(Unwrap(projection), positions_x, positions_y_lines[id])

\* C24: in a rendered chart every line gets one SVG coordinate for each source
\* record, in the order of the records: coordinate i is position_to_svg of the
\* X position and of the line's Y position of record i, also where one of them
\* is not finite
C24_OneCoordinatePerRecord ==
    IsSome(projection) =>
        \A id \in Lines :
            /\ Len(LineCoords(id)) = Len(data)
            /\ \A i \in 1 .. Len(data) :
                  LineCoords(id)[i] =
                      position_to_svg(Unwrap(projection),
                                      position(get_x(data[i])),
                                      position(get_y_position(id, data[i])))

\* three records, the second without finite positions, in a plot area from
\* (2, 1) to (8, 6)
C24_Witness ==
    /\ IsSome(projection)
    /\ bounds(Unwrap(projection)) = [left |-> 2, top |-> 1, right |-> 8, bottom |-> 6]
    /\ positions_x = << F(1), NaN, F(3) >>
    /\ min_y = None
    /\ LineCoords(LineIds[1]) = << << F(2), F(6) >>, << NaN, NaN >>, << F(8), F(1) >> >>
    /\ LineCoords(LineIds[2]) = << << F(2), F(1) >>, << NaN, NaN >>, << F(8), F(6) >> >>

\* ------------------------------------------------------------------ C25
\* the pair of inputs the Outer policy is built from in each calculation mode
PairOfMode(calc) ==
    CASE calc = "Width" -> << height, ratio >>
      [] calc = "Height" -> << width, ratio >>
      [] calc = "Ratio" -> << width, height >>

\* the Outer policy is built from the pair of its mode
OuterFromPairOfMode ==
    (IsSome(aspect_ratio) /\ aspect[1] = "Outer") =>
        Unwrap(aspect_ratio).args = PairOfMode(aspect[2])

InBounds(len) ==
    \A index \in nearest_index(positions_x, pos_x) :
        IsSome(index) => Unwrap(index) \in 0 .. len - 1

\* C26: after any replacements of the data and for every query, every index
\* nearest_index can return is below the length of data_x, of positions_x and
\* of the Y array of every line, so the three lookups stay inside their arrays
C26_NearestIndexInBounds ==
    /\ InBounds(Len(data_x))
    /\ InBounds(Len(positions_x))
    /\ \A id \in Lines : InBounds(Len(data_y_lines[id]))

\* a query above the last of three records that are not in ascending order,
\* after which the last index is a possible answer
C26_Witness ==
    /\ Len(data) = 3
    /\ ~Ascending(positions_x)
    /\ pos_x = F(MaxPos + 1)
    /\ Some(2) \in nearest_index(positions_x, pos_x)
    /\ \A id \in Lines : Len(data_y_lines[id]) = 3

\* ------------------------------------------------------------------ C27
\* the range is Some, in ascending order, and holds every one of the positions
Covers(r, finite) ==
    /\ IsSome(r)
    /\ Le(position(Unwrap(r)[1]), position(Unwrap(r)[2]))
    /\ \A p \in finite :
          Le(position(Unwrap(r)[1]), p) /\ Le(p, position(Unwrap(r)[2]))

\* C27: while an axis has a finite data position, its combined range is Some,
\* its lower end is not above its upper end, and every finite data position of
\* the axis lies between them, whichever finite overrides are set, a lone one
\* and an inverted pair included
C27_RangeCoversFiniteData ==
    /\ FiniteOf(positions_x) # { } => Covers(range_x, FiniteOf(positions_x))
    /\ FiniteY # { } => Covers(range_y, FiniteY)

\* data from 1 to 3 on both axes inside inverted overrides (2, 0) on both
C27_Witness ==
    /\ FiniteOf(positions_x) = { F(1), F(3) }
    /\ FiniteY = { F(1), F(3) }
    /\ min_x = Some(F(2)) /\ max_x = Some(F(0))
    /\ min_y = Some(F(2)) /\ max_y = Some(F(0))
    /\ range_x = Some(<< F(1), F(3) >>)
    /\ range_y = Some(<< F(1), F(3) >>)

\* ------------------------------------------------------------------ C28
\* C28: range_y is Some exactly when something can be its lower end (finite Y
\* data on a line, or the min override) and something can be its upper end
\* (finite Y data on a line, or the max override); without finite Y data and
\* with one of the two overrides only, range_y is None and position_range has
\* the Y extent (0, 0) it has without any override
C28_RangeYNeedsBothEnds ==
    /\ IsSome(range_y) <=>
          /\ (FiniteY # { } \/ IsSome(min_y))
          /\ (FiniteY # { } \/ IsSome(max_y))
    /\ (FiniteY = { } /\ IsSome(min_y) # IsSome(max_y)) =>
          /\ range_y = None
          /\ position_range.top = F(0) /\ position_range.bottom = F(0)
          /\ position_range = position_range_memo(range_x, None)

\* records without a finite Y, and the min override alone
C28_Witness ==
    /\ Len(data) = 2
    /\ FiniteY = { }
    /\ min_y = Some(F(2)) /\ max_y = None
    /\ range_y = None
    /\ position_range.top = F(0) /\ position_range.bottom = F(0)

\* ------------------------------------------------------------------ C29
\* C29: the width tick labels reserve on a vertical edge is at least the width
\* of the box of each of their rendered labels (font width times the length of
\* the label, plus the left and right padding), and is the width of the widest
C29_ReservedWidthHoldsEveryLabel ==
    LET labels == apply_attr(TickLabels_new, Attr)
    IN /\ \A i \in 1 .. Len(YTicks) :
             TickLabel_width(labels, YTicks[i]) <= LeftTickLabelsWidth
       /\ YTicks # << >> =>
             \E i \in 1 .. Len(YTicks) :
                 TickLabel_width(labels, YTicks[i]) = LeftTickLabelsWidth

\* ticks 1 and 12 with a font width of 5 and an uneven padding: boxes of 11 and
\* 16 in a region of 16
C29_Witness ==
    /\ YTicks = << F(1), F(12) >>
    /\ font_width = 5
    /\ padding = [top |-> 1, right |-> 2, bottom |-> 3, left |-> 4]
    /\ TickLabel_width(apply_attr(TickLabels_new, Attr), F(1)) = 11
    /\ TickLabel_width(apply_attr(TickLabels_new, Attr), F(12)) = 16
    /\ LeftTickLabelsWidth = 16

\* ------------------------------------------------------------------ C30
\* the list a call leaves is the list before it with the neighbours at
\* indexes a and a + 1 exchanged
SwappedAt(before, after, a) ==
    /\ Len(after) = Len(before)
    /\ At(after, a) = At(before, a + 1)
    /\ At(after, a + 1) = At(before, a)
    /\ \A j \in Indexes(before) : j \notin { a, a + 1 } => At(after, j) = At(before, j)

====
